---- MODULE Spec2Model ----
(***************************************************************************)
(* Model of the sherlock package (alankm/sherlock).  The repository holds  *)
(* three revisions of the package, each a complete, separate program:      *)
(*   sherlock.go  - package-wide registries keyed by the caller's          *)
(*                  directory; Register*, lookup, Assert, Try, Check,      *)
(*                  Catch.                                                 *)
(*   part_000     - a Sherlock value with a notebook and an action;        *)
(*                  Assert, Detect, Investigation, Catch.                  *)
(*   part_001     - a Sherlock value with rules (registered, mappings,     *)
(*                  substrings, standard); Assert, Try, error,             *)
(*                  Investigation, Catch.                                  *)
(* The variable rev says which revision a behaviour runs; it never         *)
(* changes.  A guarded call chain is "defer <guard>; <operation>": the     *)
(* operation runs (pc idle -> deferred), then the deferred guard runs      *)
(* (deferred -> done), then the guarded function returns (done -> idle).   *)
(***************************************************************************)
EXTENDS Integers, Sequences, FiniteSets, TLC

VARIABLES rev, packages, heap, s, regs, pc, op, guard, raised, escaped,
          slot, calls, casefile, stderr, classified, resolved, writers

vars == <<rev, packages, heap, s, regs, pc, op, guard, raised, escaped,
          slot, calls, casefile, stderr, classified, resolved, writers>>

\* ------------------------------------------------------------------ bounds
\* Number of registration / configuration calls a behaviour may make.
MaxRegs == 2

\* ------------------------------------------------------------ the universe
RevGlobal == "sherlock.go"
RevAction == "part_000"
RevRules == "part_001"
Revisions == {RevGlobal, RevAction, RevRules}

Nil == "nil"

\* Error identities the callers use.  E1 and E3 are distinct identities with
\* the same message.
Errors == {"E1", "E2", "E3"}

ErrUnexpected == "ErrUnexpected"
ErrInspect == "ErrInspect"
\* Calling a nil func value panics with a runtime error (an error value).
ErrNilFunc == "runtime error: invalid memory address or nil pointer dereference"
\* Writing to a nil map panics with a runtime error (an error value).
ErrNilMap == "assignment to entry in nil map"
\* The error ioutil.TempFile returns when no temporary file can be made.
ErrTempFile == "ErrTempFile"

\* err.Error(), as a sequence of characters.
Msg(err) ==
    CASE err = "E1" -> <<"a", "b">>
      [] err = "E2" -> <<"b", "a">>
      [] err = "E3" -> <<"a", "b">>
      [] OTHER -> <<"?">>

\* Prefix strings given to MapPrefix, and regular expressions given to
\* RegisterRegex / RegisterRegexMapping: a literal, an anchored literal and
\* an expression that does not compile.
Prefixes == {<<"a">>, <<"a", "b">>}
Regexes == {<<"a">>, <<"^", "b">>, <<"(">>}

\* Directories of the calling code, and the directory of sherlock.go itself.
Modules == {"A", "B"}
SherlockDir == "sherlock"

\* Notebook paths.
Paths == {"", "notes"}

\* ---------------------------------------------------------------- go maps
EmptyMap == [k \in {} |-> Nil]

Put(m, k, v) == [x \in (DOMAIN m) \cup {k} |-> IF x = k THEN v ELSE m[x]]

\* A map field of a struct: made says whether make() ever built it, kv holds
\* its entries.  The zero value is the nil map: it reads as empty (a lookup
\* gives ok = false, a range visits nothing) and a write to it panics.
NilMap == [made |-> FALSE, kv |-> EmptyMap]

\* ----------------------------------------------------------- panic values
\* A value given to panic(): its dynamic type, and the fields of a failure.
\* The failure of part_001 has no detect field; it is kept FALSE there.
NoPanic == [type |-> "nil", detect |-> FALSE, err |-> Nil]
FailurePtr(d, e) == [type |-> "*failure", detect |-> d, err |-> e]
ErrorValue(e) == [type |-> "error", detect |-> FALSE, err |-> e]
OtherValue == [type |-> "string", detect |-> FALSE, err |-> Nil]

\* A value passed as the last argument of Try / Detect / Check.
NilArg == [type |-> "nil", err |-> Nil]
ErrArg(e) == [type |-> "error", err |-> e]
IntArg == [type |-> "int", err |-> Nil]
Args == {NilArg, IntArg} \cup {ErrArg(e) : e \in Errors}

NoOp == [fn |-> "none", statement |-> TRUE, arg |-> NilArg]
NoClass == [in |-> Nil, out |-> Nil, inst |-> 0, by |-> Nil]
\* No case file written.
NoFile == [dest |-> Nil, err |-> Nil]

\* ----------------------------------------------------- strings and regexp
\* strings.HasPrefix
HasPrefix(str, prefix) ==
    /\ Len(prefix) <= Len(str)
    /\ SubSeq(str, 1, Len(prefix)) = prefix

\* strings.Contains, which is what an unanchored literal expression tests.
Contains(str, sub) ==
    \E i \in 0..(Len(str) - Len(sub)) : SubSeq(str, i + 1, i + Len(sub)) = sub

\* regexp.MatchString(key, str) with its error dropped ("ok, _ :="): an
\* expression that does not compile gives ok = false; "^lit" matches at the
\* start of str; "lit" matches anywhere in str.
MatchString(key, str) ==
    IF \E i \in 1..Len(key) : key[i] = "("
    THEN FALSE
    ELSE IF Len(key) > 0 /\ key[1] = "^"
         THEN HasPrefix(str, Tail(key))
         ELSE Contains(str, key)

\* ------------------------------------------------------------ sherlock.go
newSherlock ==
    [errors |-> {}, mappings |-> EmptyMap, regexps |-> {},
     regexpMappings |-> EmptyMap]

\* The call stack at runtime.Caller inside caller(), innermost frame first:
\* caller, handler, the exported function fn that called handler, and the
\* user's code in directory m that called fn.  Each frame is the directory
\* and base name of its file.
Stack(m, fn) ==
    << [func |-> "caller", dir |-> SherlockDir, file |-> "sherlock.go"],
       [func |-> "handler", dir |-> SherlockDir, file |-> "sherlock.go"],
       [func |-> fn, dir |-> SherlockDir, file |-> "sherlock.go"],
       [func |-> "user", dir |-> m, file |-> "user.go"] >>

\* runtime.Caller(skip): skip = 0 is the function calling runtime.Caller.
Caller(stack, skip) ==
    IF skip + 1 <= Len(stack)
    THEN [ok |-> TRUE, dir |-> stack[skip + 1].dir]
    ELSE [ok |-> FALSE, dir |-> Nil]

\* caller(): file[:strings.LastIndex(file, "/")] of runtime.Caller(2).
caller(stack) == Caller(stack, 2).dir

handler_alwaysNew(pk, hp, key) ==
    [packages |-> Put(pk, key, Len(hp) + 1),
     heap |-> Append(hp, newSherlock),
     s |-> Len(hp) + 1]

\* handler(): pk is the packages table, hp the registries allocated so far;
\* the result is the table, the registries and the index of the registry
\* returned.  The table is nil until the first call makes it; a nil map
\* reads as an empty one and handler is the only code that touches it, so
\* the table starts as the empty map.
handler(pk, hp, key) ==
    IF key \in DOMAIN pk
    THEN [packages |-> pk, heap |-> hp, s |-> pk[key]]
    ELSE [packages |-> Put(pk, key, Len(hp) + 1),
          heap |-> Append(hp, newSherlock),
          s |-> Len(hp) + 1]

\* The regexpMappings keys whose expression matches the message of err.
RegexHits(r, err) ==
    {key \in DOMAIN r.regexpMappings : MatchString(key, Msg(err))}

\* TRUE when lookup reaches its last tier and writes to os.Stderr.
lookupUnexpected(r, err) ==
    /\ err \notin r.errors
    /\ err \notin DOMAIN r.mappings
    /\ ~ \E key \in r.regexps : MatchString(key, Msg(err))
    /\ RegexHits(r, err) = {}

lookup_regexFirst(r, err) ==
    IF err \in r.errors THEN {err}
    ELSE IF \E key \in r.regexps : MatchString(key, Msg(err)) THEN {err}
    ELSE IF RegexHits(r, err) # {}
         THEN {r.regexpMappings[key] : key \in RegexHits(r, err)}
    ELSE IF err \in DOMAIN r.mappings THEN {r.mappings[err]}
    ELSE {ErrUnexpected}

lookup_noRegexMappings(r, err) ==
    IF err \in r.errors THEN {err}
    ELSE IF err \in DOMAIN r.mappings THEN {r.mappings[err]}
    ELSE IF \E key \in r.regexps : MatchString(key, Msg(err)) THEN {err}
    ELSE {ErrUnexpected}

\* lookup(): the set of errors it can return.  Ranging over a Go map visits
\* the keys in an unspecified order, so with several matching expressions
\* any of their values can be the one returned.
lookup(r, err) ==
    IF err \in r.errors THEN {err}
    ELSE IF err \in DOMAIN r.mappings THEN {r.mappings[err]}
    ELSE IF \E key \in r.regexps : MatchString(key, Msg(err)) THEN {err}
    ELSE IF RegexHits(r, err) # {}
         THEN {r.regexpMappings[key] : key \in RegexHits(r, err)}
         ELSE {ErrUnexpected}

\* ------------------------------------------------- part_000 and part_001
\* The zero Sherlock, which is what new(Sherlock) or Sherlock{} gives:
\* no code of part_001 makes the three maps, so they are nil.  part_000 has
\* only notebook and action.
NewSherlock ==
    [notebook |-> "", action |-> Nil, registered |-> NilMap,
     mappings |-> NilMap, substrings |-> NilMap, standard |-> Nil]

\* The substrings keys that are a prefix of the message of err.
PrefixHits(sh, err) ==
    {key \in DOMAIN sh.substrings.kv : HasPrefix(Msg(err), key)}

error_noStandard(sh, err) ==
    IF err \in DOMAIN sh.registered.kv THEN {err}
    ELSE IF err \in DOMAIN sh.mappings.kv THEN {sh.mappings.kv[err]}
    ELSE IF PrefixHits(sh, err) # {}
         THEN {sh.substrings.kv[key] : key \in PrefixHits(sh, err)}
    ELSE {err}

\* (*Sherlock).error of part_001: the set of errors it can return (the
\* range over the substrings map visits keys in an unspecified order).
error(sh, err) ==
    IF err \in DOMAIN sh.registered.kv THEN {err}
    ELSE IF err \in DOMAIN sh.mappings.kv THEN {sh.mappings.kv[err]}
    ELSE IF PrefixHits(sh, err) # {}
         THEN {sh.substrings.kv[key] : key \in PrefixHits(sh, err)}
    ELSE IF sh.standard # Nil THEN {sh.standard}
    ELSE {err}

\* writeCaseFiles: where the case file ends up.  fs is what the file system
\* answers: removeOK for os.Remove(s.notebook), createOK for os.Create,
\* tempOK for ioutil.TempFile.  "panic" is panic(err) after TempFile failed.
writeCaseFiles(sh, fs) ==
    LET notebook == IF sh.notebook # "" /\ fs.removeOK /\ fs.createOK
                    THEN sh.notebook ELSE Nil
    IN  IF notebook # Nil THEN notebook
        ELSE IF fs.tempOK THEN "Sherlock-temp" ELSE "panic"

FileSystems == [removeOK : BOOLEAN, createOK : BOOLEAN, tempOK : BOOLEAN]

\* ------------------------------------------------------------------- state
\* rev        the revision the program is built from
\* packages   sherlock.go: the packages table, directory -> registry (an
\*            index into heap)
\* heap       sherlock.go: the registries made by newSherlock, in order
\* s          part_000 / part_001: the Sherlock value
\* regs       registration and configuration calls made so far
\* pc         idle / deferred / done
\* op         the operation the guarded function ran
\* guard      the deferred call of the guarded function
\* raised     what the operation panicked with (NoPanic: it returned)
\* escaped    the panic that leaves the guarded function
\* slot       the error variable whose address Catch was given
\* calls      the invocations of the action callback, in order
\* casefile   where writeCaseFiles wrote, and the error it wrote
\* stderr     the errors lookup reported on os.Stderr
\* classified the last run of lookup / error: its input, its result, the
\*            registry it read and the directory of the user code
\* resolved   the registry the last handler() call of each directory got
\* writers    for each registry, the directories whose code registered
\*            rules in it
Init ==
    /\ rev \in Revisions
    /\ packages = EmptyMap
    /\ heap = << >>
    /\ s = NewSherlock
    /\ regs = 0
    /\ pc = "idle"
    /\ op = NoOp
    /\ guard = Nil
    /\ raised = NoPanic
    /\ escaped = NoPanic
    /\ slot = Nil
    /\ calls = << >>
    /\ casefile = NoFile
    /\ stderr = << >>
    /\ classified = NoClass
    /\ resolved = [m \in Modules |-> 0]
    /\ writers = << >>

callVars == <<pc, op, guard, raised, escaped, slot, calls, casefile, stderr,
              classified>>

\* The deferred calls each revision offers.
Guards ==
    IF rev = RevGlobal THEN {"Catch"} ELSE {"Investigation", "Catch"}

\* writers after directory m registered a rule in registry h.s.
Wrote(h, m) ==
    LET w == IF Len(h.heap) > Len(writers) THEN Append(writers, {})
             ELSE writers
    IN  [w EXCEPT ![h.s] = @ \cup {m}]

\* writers after a handler() call that registers nothing.
Read(h) ==
    IF Len(h.heap) > Len(writers) THEN Append(writers, {}) ELSE writers

\* ------------------------------------------------ sherlock.go: registration
Register(m, err) ==
    /\ rev = RevGlobal /\ pc = "idle" /\ regs < MaxRegs
    /\ LET h == handler(packages, heap, caller(Stack(m, "Register")))
       IN  /\ packages' = h.packages
           /\ heap' = [h.heap EXCEPT ![h.s].errors = @ \cup {err}]
           /\ resolved' = [resolved EXCEPT ![m] = h.s]
           /\ writers' = Wrote(h, m)
    /\ regs' = regs + 1
    /\ UNCHANGED <<rev, s, callVars>>

RegisterRegex(m, regex) ==
    /\ rev = RevGlobal /\ pc = "idle" /\ regs < MaxRegs
    /\ LET h == handler(packages, heap, caller(Stack(m, "RegisterRegex")))
       IN  /\ packages' = h.packages
           /\ heap' = [h.heap EXCEPT ![h.s].regexps = @ \cup {regex}]
           /\ resolved' = [resolved EXCEPT ![m] = h.s]
           /\ writers' = Wrote(h, m)
    /\ regs' = regs + 1
    /\ UNCHANGED <<rev, s, callVars>>

RegisterMapping(m, x, y) ==
    /\ rev = RevGlobal /\ pc = "idle" /\ regs < MaxRegs
    /\ LET h == handler(packages, heap, caller(Stack(m, "RegisterMapping")))
       IN  /\ packages' = h.packages
           /\ heap' = [h.heap EXCEPT ![h.s].mappings = Put(@, x, y)]
           /\ resolved' = [resolved EXCEPT ![m] = h.s]
           /\ writers' = Wrote(h, m)
    /\ regs' = regs + 1
    /\ UNCHANGED <<rev, s, callVars>>

RegisterRegexMapping(m, x, y) ==
    /\ rev = RevGlobal /\ pc = "idle" /\ regs < MaxRegs
    /\ LET h == handler(packages, heap,
                        caller(Stack(m, "RegisterRegexMapping")))
       IN  /\ packages' = h.packages
           /\ heap' = [h.heap EXCEPT ![h.s].regexpMappings = Put(@, x, y)]
           /\ resolved' = [resolved EXCEPT ![m] = h.s]
           /\ writers' = Wrote(h, m)
    /\ regs' = regs + 1
    /\ UNCHANGED <<rev, s, callVars>>

\* -------------------------------------------- sherlock.go: failure capture
\* The guarded function "defer Catch(&err); Assert(statement, err)".
Assert_global(statement, err, g) ==
    /\ rev = RevGlobal /\ pc = "idle" /\ g \in Guards
    /\ pc' = "deferred"
    /\ op' = [fn |-> "Assert", statement |-> statement, arg |-> ErrArg(err)]
    /\ guard' = g
    /\ raised' = IF statement = FALSE THEN ErrorValue(err) ELSE NoPanic
    /\ UNCHANGED <<rev, packages, heap, s, regs, escaped, slot, calls,
                   casefile, stderr, classified, resolved, writers>>

\* panic(lookup(handler(), err, debug.Stack())) called by fn from code in
\* directory m.
PanicLookup(m, fn, err) ==
    LET h == handler(packages, heap, caller(Stack(m, fn)))
    IN  /\ packages' = h.packages
        /\ heap' = h.heap
        /\ resolved' = [resolved EXCEPT ![m] = h.s]
        /\ writers' = Read(h)
        /\ \E out \in lookup(h.heap[h.s], err) :
              /\ raised' = ErrorValue(out)
              /\ classified' = [in |-> err, out |-> out, inst |-> h.s,
                                by |-> m]
        /\ stderr' = IF lookupUnexpected(h.heap[h.s], err)
                     THEN Append(stderr, err) ELSE stderr

\* The guarded function "defer Catch(&err); Try(..., x)".
Try_global(m, x, g) ==
    /\ rev = RevGlobal /\ pc = "idle" /\ g \in Guards
    /\ pc' = "deferred"
    /\ op' = [fn |-> "Try", statement |-> TRUE, arg |-> x]
    /\ guard' = g
    /\ IF x.type = "error"
       THEN PanicLookup(m, "Try", x.err)
       ELSE /\ raised' = NoPanic
            /\ UNCHANGED <<packages, heap, resolved, writers, classified,
                           stderr>>
    /\ UNCHANGED <<rev, s, regs, escaped, slot, calls, casefile>>

\* The guarded function "defer Catch(&err); Check(x)"; x is an error or nil.
Check(m, x, g) ==
    /\ rev = RevGlobal /\ pc = "idle" /\ g \in Guards
    /\ x.type \in {"nil", "error"}
    /\ pc' = "deferred"
    /\ op' = [fn |-> "Check", statement |-> TRUE, arg |-> x]
    /\ guard' = g
    /\ IF x.type = "error"
       THEN PanicLookup(m, "Check", x.err)
       ELSE /\ raised' = NoPanic
            /\ UNCHANGED <<packages, heap, resolved, writers, classified,
                           stderr>>
    /\ UNCHANGED <<rev, s, regs, escaped, slot, calls, casefile>>

\* ------------------------------------------------- sherlock.go: recovery
\* Catch(err *error), deferred: recover() stops the panic whatever its
\* value; the slot is written only when the value is an error.
Catch_global ==
    /\ rev = RevGlobal /\ pc = "deferred" /\ guard = "Catch"
    /\ pc' = "done"
    /\ slot' = IF raised # NoPanic /\ raised.type = "error"
               THEN raised.err ELSE slot
    /\ escaped' = NoPanic
    /\ UNCHANGED <<rev, packages, heap, s, regs, op, guard, raised, calls,
                   casefile, stderr, classified, resolved, writers>>

\* ------------------------------------- part_000 / part_001: configuration
Notebook(path) ==
    /\ rev \in {RevAction, RevRules} /\ pc = "idle" /\ regs < MaxRegs
    /\ s' = [s EXCEPT !.notebook = path]
    /\ regs' = regs + 1
    /\ UNCHANGED <<rev, packages, heap, callVars, resolved, writers>>

\* Action(fn): fn is a func value that records its arguments in calls.
Action(fn) ==
    /\ rev \in {RevAction, RevRules} /\ pc = "idle" /\ regs < MaxRegs
    /\ s' = [s EXCEPT !.action = fn]
    /\ regs' = regs + 1
    /\ UNCHANGED <<rev, packages, heap, callVars, resolved, writers>>

Standard(err) ==
    /\ rev = RevRules /\ pc = "idle" /\ regs < MaxRegs
    /\ s' = [s EXCEPT !.standard = err]
    /\ regs' = regs + 1
    /\ UNCHANGED <<rev, packages, heap, callVars, resolved, writers>>

\* What the three registrations of part_001 leave alone.
mapRest == <<rev, packages, heap, escaped, slot, calls, casefile, stderr,
             classified, resolved, writers>>

\* part_001: "defer <g>; s.Register(err)".  The write to s.registered
\* panics when the map is nil, and then nothing is stored.
Register_rules(err, g) ==
    /\ rev = RevRules /\ pc = "idle" /\ regs < MaxRegs /\ g \in Guards
    /\ regs' = regs + 1
    /\ pc' = "deferred"
    /\ op' = [fn |-> "Register", statement |-> TRUE, arg |-> ErrArg(err)]
    /\ guard' = g
    /\ IF s.registered.made
       THEN /\ s' = [s EXCEPT !.registered.kv = Put(@, err, TRUE)]
            /\ raised' = NoPanic
       ELSE /\ s' = s
            /\ raised' = ErrorValue(ErrNilMap)
    /\ UNCHANGED mapRest

\* part_001: "defer <g>; s.Map(input, output)".
Map(input, output, g) ==
    /\ rev = RevRules /\ pc = "idle" /\ regs < MaxRegs /\ g \in Guards
    /\ regs' = regs + 1
    /\ pc' = "deferred"
    /\ op' = [fn |-> "Map", statement |-> TRUE, arg |-> ErrArg(input)]
    /\ guard' = g
    /\ IF s.mappings.made
       THEN /\ s' = [s EXCEPT !.mappings.kv = Put(@, input, output)]
            /\ raised' = NoPanic
       ELSE /\ s' = s
            /\ raised' = ErrorValue(ErrNilMap)
    /\ UNCHANGED mapRest

\* part_001: "defer <g>; s.MapPrefix(input, output)".
MapPrefix(input, output, g) ==
    /\ rev = RevRules /\ pc = "idle" /\ regs < MaxRegs /\ g \in Guards
    /\ regs' = regs + 1
    /\ pc' = "deferred"
    /\ op' = [fn |-> "MapPrefix", statement |-> TRUE, arg |-> ErrArg(output)]
    /\ guard' = g
    /\ IF s.substrings.made
       THEN /\ s' = [s EXCEPT !.substrings.kv = Put(@, input, output)]
            /\ raised' = NoPanic
       ELSE /\ s' = s
            /\ raised' = ErrorValue(ErrNilMap)
    /\ UNCHANGED mapRest

\* ------------------------------------- part_000 / part_001: failure capture
opRest == <<rev, packages, heap, s, regs, escaped, slot, calls, casefile,
            stderr, classified, resolved, writers>>

\* part_000: the guarded function "defer <g>; Assert(statement, err)".
Assert_action(statement, err, g) ==
    /\ rev = RevAction /\ pc = "idle" /\ g \in Guards
    /\ pc' = "deferred"
    /\ op' = [fn |-> "Assert", statement |-> statement, arg |-> ErrArg(err)]
    /\ guard' = g
    /\ raised' = IF statement = FALSE THEN FailurePtr(FALSE, err)
                 ELSE NoPanic
    /\ UNCHANGED opRest

\* part_000: "defer <g>; Detect(..., x)".  Assert(ok, ErrInspect) panics
\* when x is not an error; otherwise Detect panics with detect = true.
Detect(x, g) ==
    /\ rev = RevAction /\ pc = "idle" /\ g \in Guards
    /\ pc' = "deferred"
    /\ op' = [fn |-> "Detect", statement |-> TRUE, arg |-> x]
    /\ guard' = g
    /\ raised' = IF x.type = "nil" THEN NoPanic
                 ELSE IF x.type # "error" THEN FailurePtr(FALSE, ErrInspect)
                 ELSE FailurePtr(TRUE, x.err)
    /\ UNCHANGED opRest

\* part_001: "defer <g>; Assert(statement, err)".
Assert_rules(statement, err, g) ==
    /\ rev = RevRules /\ pc = "idle" /\ g \in Guards
    /\ pc' = "deferred"
    /\ op' = [fn |-> "Assert", statement |-> statement, arg |-> ErrArg(err)]
    /\ guard' = g
    /\ raised' = IF statement = FALSE THEN FailurePtr(FALSE, err)
                 ELSE NoPanic
    /\ UNCHANGED opRest

\* part_001: "defer <g>; Try(..., x)".
Try_rules(x, g) ==
    /\ rev = RevRules /\ pc = "idle" /\ g \in Guards
    /\ pc' = "deferred"
    /\ op' = [fn |-> "Try", statement |-> TRUE, arg |-> x]
    /\ guard' = g
    /\ raised' = IF x.type = "error" THEN FailurePtr(FALSE, x.err)
                 ELSE NoPanic
    /\ UNCHANGED opRest

\* Code of the guarded function that panics by itself (not through this
\* package): panic(v) with v an error or a string.
UserPanic(v, g) ==
    /\ pc = "idle" /\ g \in Guards
    /\ pc' = "deferred"
    /\ op' = [fn |-> "panic", statement |-> TRUE,
              arg |-> [type |-> v.type, err |-> v.err]]
    /\ guard' = g
    /\ raised' = v
    /\ UNCHANGED opRest

\* -------------------------------------------- part_000 / part_001: recovery
\* part_000 (*Sherlock).Investigation, deferred.  s.action is called
\* whether or not Action set it.
Investigation_action(fs) ==
    /\ rev = RevAction /\ pc = "deferred" /\ guard = "Investigation"
    /\ pc' = "done"
    /\ IF raised = NoPanic
       THEN UNCHANGED <<escaped, casefile, calls>>
       ELSE IF raised.type # "*failure"
       THEN /\ escaped' = raised
            /\ UNCHANGED <<casefile, calls>>
       ELSE IF writeCaseFiles(s, fs) = "panic"
       THEN /\ escaped' = ErrorValue(ErrTempFile)
            /\ UNCHANGED <<casefile, calls>>
       ELSE /\ casefile' = [dest |-> writeCaseFiles(s, fs),
                            err |-> raised.err]
            /\ IF s.action = Nil
               THEN /\ escaped' = ErrorValue(ErrNilFunc)
                    /\ UNCHANGED calls
               ELSE /\ escaped' = NoPanic
                    /\ calls' = Append(calls, [detected |-> raised.detect,
                                               err |-> raised.err])
    /\ UNCHANGED <<rev, packages, heap, s, regs, op, guard, raised, slot,
                   stderr, classified, resolved, writers>>

\* part_001 (*Sherlock).Investigation, deferred: s.action is not called.
Investigation_rules(fs) ==
    /\ rev = RevRules /\ pc = "deferred" /\ guard = "Investigation"
    /\ pc' = "done"
    /\ IF raised = NoPanic
       THEN UNCHANGED <<escaped, casefile>>
       ELSE IF raised.type # "*failure"
       THEN /\ escaped' = raised
            /\ UNCHANGED casefile
       ELSE IF writeCaseFiles(s, fs) = "panic"
       THEN /\ escaped' = ErrorValue(ErrTempFile)
            /\ UNCHANGED casefile
       ELSE /\ casefile' = [dest |-> writeCaseFiles(s, fs),
                            err |-> raised.err]
            /\ escaped' = NoPanic
    /\ UNCHANGED <<rev, packages, heap, s, regs, op, guard, raised, slot,
                   calls, stderr, classified, resolved, writers>>

\* part_000 Catch(err *error), deferred.  The second type assertion is to
\* failure, the struct; Assert and Detect panic with *failure.
Catch_action ==
    /\ rev = RevAction /\ pc = "deferred" /\ guard = "Catch"
    /\ pc' = "done"
    /\ slot' = IF raised = NoPanic THEN slot
               ELSE IF raised.type = "error" THEN raised.err
               ELSE IF raised.type = "failure" THEN raised.err
               ELSE slot
    /\ escaped' = NoPanic
    /\ UNCHANGED <<rev, packages, heap, s, regs, op, guard, raised, calls,
                   casefile, stderr, classified, resolved, writers>>

\* part_001 (*Sherlock).Catch(err *error), deferred.
Catch_rules ==
    /\ rev = RevRules /\ pc = "deferred" /\ guard = "Catch"
    /\ pc' = "done"
    /\ IF raised # NoPanic /\ raised.type \in {"error", "failure"}
       THEN \E out \in error(s, raised.err) :
               /\ slot' = out
               /\ classified' = [in |-> raised.err, out |-> out,
                                 inst |-> 0, by |-> Nil]
       ELSE UNCHANGED <<slot, classified>>
    /\ escaped' = NoPanic
    /\ UNCHANGED <<rev, packages, heap, s, regs, op, guard, raised, calls,
                   casefile, stderr, resolved, writers>>

\* The guarded function is over: its caller has seen the slot, the callback
\* record and any panic that escaped, and the next guarded call starts
\* afresh.
Return ==
    /\ pc = "done"
    /\ pc' = "idle"
    /\ op' = NoOp
    /\ guard' = Nil
    /\ raised' = NoPanic
    /\ escaped' = NoPanic
    /\ slot' = Nil
    /\ calls' = << >>
    /\ casefile' = NoFile
    /\ stderr' = << >>
    /\ classified' = NoClass
    /\ UNCHANGED <<rev, packages, heap, s, regs, resolved, writers>>

PanicValues == {ErrorValue(e) : e \in Errors} \cup {OtherValue}

Next ==
    \/ \E m \in Modules, err \in Errors : Register(m, err)
    \/ \E m \in Modules, regex \in Regexes : RegisterRegex(m, regex)
    \/ \E m \in Modules, x \in Errors, y \in Errors : RegisterMapping(m, x, y)
    \/ \E m \in Modules, x \in Regexes, y \in Errors :
          RegisterRegexMapping(m, x, y)
    \/ \E st \in BOOLEAN, err \in Errors, g \in {"Catch"} :
          Assert_global(st, err, g)
    \/ \E m \in Modules, x \in Args, g \in {"Catch"} : Try_global(m, x, g)
    \/ \E m \in Modules, x \in Args, g \in {"Catch"} : Check(m, x, g)
    \/ Catch_global
    \/ \E path \in Paths : Notebook(path)
    \/ Action("fn")
    \/ \E err \in Errors : Standard(err)
    \/ \E err \in Errors, g \in {"Investigation", "Catch"} :
          Register_rules(err, g)
    \/ \E x \in Errors, y \in Errors, g \in {"Investigation", "Catch"} :
          Map(x, y, g)
    \/ \E x \in Prefixes, y \in Errors, g \in {"Investigation", "Catch"} :
          MapPrefix(x, y, g)
    \/ \E st \in BOOLEAN, err \in Errors, g \in {"Investigation", "Catch"} :
          Assert_action(st, err, g)
    \/ \E x \in Args, g \in {"Investigation", "Catch"} : Detect(x, g)
    \/ \E st \in BOOLEAN, err \in Errors, g \in {"Investigation", "Catch"} :
          Assert_rules(st, err, g)
    \/ \E x \in Args, g \in {"Investigation", "Catch"} : Try_rules(x, g)
    \/ \E v \in PanicValues, g \in {"Investigation", "Catch"} :
          UserPanic(v, g)
    \/ \E fs \in FileSystems : Investigation_action(fs)
    \/ \E fs \in FileSystems : Investigation_rules(fs)
    \/ Catch_action
    \/ Catch_rules
    \/ Return

Spec == Init /\ [][Next]_vars

TypeOK ==
    /\ rev \in Revisions
    /\ pc \in {"idle", "deferred", "done"}
    /\ regs \in 0..MaxRegs

\* =================================================================== claims
\* The rules the last classification read: the registry handler() returned
\* (sherlock.go) or the Sherlock value (part_001).
ExactRead ==
    IF rev = RevGlobal THEN heap[classified.inst].errors
    ELSE DOMAIN s.registered.kv

MappingsRead ==
    IF rev = RevGlobal THEN heap[classified.inst].mappings
    ELSE s.mappings.kv

\* The targets of the registered pattern rules whose pattern matches the
\* message of the classified error.
PatternTargets ==
    IF rev = RevGlobal
    THEN {heap[classified.inst].regexpMappings[key] :
             key \in RegexHits(heap[classified.inst], classified.in)}
    ELSE {s.substrings.kv[key] : key \in PrefixHits(s, classified.in)}

\* sherlock.go only: a pass-through expression (RegisterRegex) matches.
PassThroughHit ==
    /\ rev = RevGlobal
    /\ \E key \in heap[classified.inst].regexps :
          MatchString(key, Msg(classified.in))

\* The registry code in directory m binds to (an empty one before any call).
ScopeRegistry(m) ==
    LET key == caller(Stack(m, "Check"))
    IN  IF key \in DOMAIN packages THEN heap[packages[key]] ELSE newSherlock

\* classify(e, registry) for the revision at hand; part_000 has no rules.
Classify(e) ==
    IF rev = RevGlobal THEN UNION {lookup(ScopeRegistry(m), e) : m \in Modules}
    ELSE IF rev = RevRules THEN error(s, e)
    ELSE {e}

\* The operation was a failing Assert or a checked-result call given a
\* non-nil error.
CapturedError ==
    \/ op.fn = "Assert" /\ op.statement = FALSE
    \/ op.fn \in {"Try", "Detect", "Check"} /\ op.arg.type = "error"

\* C1 as claimed: whenever an error x with a direct mapping x -> y in the
\* registry is classified, the result is y, whatever else is registered.
C1_MappingAlwaysWins ==
    classified # NoClass /\ classified.in \in DOMAIN MappingsRead
        => classified.out = MappingsRead[classified.in]

\* C1 (amended): whenever an error x that has a direct mapping x -> y and is
\* not in the exact set is classified, the result is y, also when the
\* message of x matches registered pattern rules.
C1_MappingWinsUnlessExact ==
    classified # NoClass /\ classified.in \in DOMAIN MappingsRead
                         /\ classified.in \notin ExactRead
        => classified.out = MappingsRead[classified.in]

\* C1 witness: a mapped error, not in the exact set, whose message matches a
\* pattern rule with another target, was classified to its mapping's target.
C1_Witness ==
    /\ classified # NoClass
    /\ classified.in \in DOMAIN MappingsRead
    /\ classified.in \notin ExactRead
    /\ \E y \in PatternTargets : y # MappingsRead[classified.in]
    /\ classified.out = MappingsRead[classified.in]

\* C2 as claimed: a classification run for code in one directory reads a
\* registry in which only code of that directory registered rules.
C2_ScopesIsolated ==
    classified # NoClass /\ rev = RevGlobal
        => writers[classified.inst] \subseteq {classified.by}

\* C3 as claimed: when the guarded function panicked by itself (the value
\* was not produced by Assert / Detect / Try / Check), the same value leaves
\* the guarded function after the deferred Investigation or Catch has run.
C3_ForeignPanicReraised ==
    pc = "done" /\ op.fn = "panic" => escaped = raised

\* C4 as claimed: after a failing Assert(e) or a checked-result call with a
\* non-nil error e under a deferred Catch, the slot holds classify(e).
C4_SlotHoldsClassified ==
    pc = "done" /\ guard = "Catch" /\ CapturedError
        => slot \in Classify(op.arg.err)

\* C5 as claimed: once Investigation has handled a failure record and the
\* case file was written, no panic leaves the guarded function.
C5_FailureAbsorbed ==
    pc = "done" /\ guard = "Investigation" /\ raised.type = "*failure"
                /\ casefile # NoFile
        => escaped = NoPanic

\* C6 as claimed: when Investigation handles a failure record with a
\* callback configured, the callback ran exactly once, with detected = TRUE
\* exactly for a checked-result call given a proper error, and with the
\* classified error.
C6_CallbackOnce ==
    pc = "done" /\ guard = "Investigation" /\ raised.type = "*failure"
                /\ casefile # NoFile /\ s.action # Nil
        => /\ Len(calls) = 1
           /\ calls[1].detected =
                 (op.fn \in {"Try", "Detect"} /\ op.arg.type = "error")
           /\ calls[1].err \in Classify(raised.err)

\* C7 as claimed: whenever an error that is neither in the exact set nor a
\* mapping key is classified, the result is the target y of every registered
\* pattern rule (p, y) whose pattern matches its message.
C7_EveryMatchingPattern ==
    classified # NoClass /\ classified.in \notin ExactRead
                         /\ classified.in \notin DOMAIN MappingsRead
        => \A y \in PatternTargets : classified.out = y

\* C7 (amended): whenever an error that is neither in the exact set nor a
\* mapping key, and matches no pass-through expression, is classified and
\* its message matches at least one registered pattern rule, the result is
\* the target of one of the matching pattern rules (so it is y when every
\* matching rule has target y).
C7_SomeMatchingPattern ==
    classified # NoClass /\ classified.in \notin ExactRead
                         /\ classified.in \notin DOMAIN MappingsRead
                         /\ ~PassThroughHit
                         /\ PatternTargets # {}
        => classified.out \in PatternTargets

\* C7 witness: two matching pattern rules with different targets, and the
\* result is one of the two.
C7_Witness ==
    /\ classified # NoClass
    /\ classified.in \notin ExactRead
    /\ classified.in \notin DOMAIN MappingsRead
    /\ ~PassThroughHit
    /\ Cardinality(PatternTargets) = 2
    /\ classified.out \in PatternTargets

\* C8 as claimed: Detect / Try given a last value that is neither nil nor an
\* error panics with a failure record of detect = false and ErrInspect.
C8_ImproperUseUnwinds ==
    pc \in {"deferred", "done"} /\ op.fn \in {"Try", "Detect"}
                                /\ op.arg.type = "int"
        => raised = FailurePtr(FALSE, ErrInspect)

\* The results of the rules of part_001 that match the classified error,
\* whatever their tier.
C9_RuleResults ==
    (IF classified.in \in DOMAIN s.registered.kv THEN {classified.in}
     ELSE {})
    \cup (IF classified.in \in DOMAIN s.mappings.kv
          THEN {s.mappings.kv[classified.in]} ELSE {})
    \cup {s.substrings.kv[key] : key \in PrefixHits(s, classified.in)}

\* C9: in part_001 with a standard error f set, an error that no exact,
\* mapping or prefix rule held by the Sherlock matches is classified to f,
\* and an error that some rule matches is classified to the result of a
\* matching rule.
C9_FallbackIsBackstop ==
    classified # NoClass /\ rev = RevRules /\ s.standard # Nil
        => IF C9_RuleResults = {}
           THEN classified.out = s.standard
           ELSE classified.out \in C9_RuleResults

\* C9 witness: a standard error is set, an error of the caller that no rule
\* matches was classified under Catch, and the slot holds the standard error
\* instead of the error received.
C9_Witness ==
    /\ classified # NoClass /\ rev = RevRules /\ pc = "done"
    /\ s.standard # Nil /\ s.standard # classified.in
    /\ classified.in \in Errors
    /\ C9_RuleResults = {}
    /\ classified.out = s.standard
    /\ slot = s.standard

\* Every rule of registry r is still in registry r2.
C10_Kept(r, r2) ==
    /\ r.errors \subseteq r2.errors
    /\ r.regexps \subseteq r2.regexps
    /\ DOMAIN r.mappings \subseteq DOMAIN r2.mappings
    /\ DOMAIN r.regexpMappings \subseteq DOMAIN r2.regexpMappings

\* C10: in every step, a directory that has resolved a registry keeps the
\* same registry instance, the packages table keeps every entry, and the
\* registry keeps every rule registered in it.
C10_SameRegistry ==
    [][ /\ \A key \in DOMAIN packages :
              key \in DOMAIN packages' /\ packages'[key] = packages[key]
        /\ \A m \in Modules : resolved[m] # 0 =>
              /\ resolved'[m] = resolved[m]
              /\ C10_Kept(heap[resolved[m]], heap'[resolved[m]]) ]_vars

\* C10 witness: after two registrations, a classification from a directory
\* that registered a mapping read it in the registry of that directory.
C10_Witness ==
    /\ rev = RevGlobal /\ classified # NoClass /\ regs >= 2
    /\ resolved[classified.by] = classified.inst
    /\ classified.by \in writers[classified.inst]
    /\ classified.in \in DOMAIN heap[classified.inst].mappings
    /\ classified.out = heap[classified.inst].mappings[classified.in]
    /\ classified.out # classified.in

====
